---- MODULE Spec2Model ----
(***************************************************************************)
(* The DataSov marketplace program                                         *)
(* (solana-component/programs/datasov-solana/src/lib.rs) as a state        *)
(* machine: the Marketplace account, the DataListing accounts, the token   *)
(* balances the program moves through the token program, and one action    *)
(* per instruction.                                                        *)
(*                                                                         *)
(* An instruction is one atomic step: the runtime write-locks the accounts *)
(* an instruction declares `mut`, runs account validation and the handler, *)
(* and keeps the account changes only when the handler returns Ok.  Each   *)
(* handler below is an operator that returns the error and the accounts as *)
(* they stand where the handler stopped; the action commits them when the  *)
(* error is "Ok" and leaves every account alone otherwise.                 *)
(*                                                                         *)
(* Widths are scaled down: u64 is 0..U64Max.  Option<T> is a sequence of   *)
(* length 0 (None) or 1 (Some).  An account that was never created is the  *)
(* zeroed record with initialized = FALSE.                                 *)
(***************************************************************************)
EXTENDS Integers, Sequences, FiniteSets, TLC

\* ------------------------------------------------------------- bounds
\* Largest value of the scaled-down u64.
U64Max == 1023
\* Listing ids are 1..MaxListings.
MaxListings == 2
\* Clock readings are 1..MaxTime.
MaxTime == 1
\* The listing price the callers use, besides 0: two sales at it exceed
\* U64Max.
MidPrice == 600
\* Transactions that may be in flight at once (SpecConc).
MaxInflight == 2
\* A listing price both wallets can pay at once (SpecConc).
LowPrice == 400

\* ---------------------------------------------------------- constants
\* The divisor of the fee computation (checked_div(10000)).
BasisPoints == 10000

\* ------------------------------------------------------------- inputs
Users == {"alice", "bob"}
\* The marketplace PDA, which owns the marketplace's token account.
MarketplacePda == "marketplace"
\* One token account per wallet, named by the wallet that owns it, and the
\* marketplace's associated token account, owned by the PDA.
TokenAccounts == Users \cup {MarketplacePda}
ListingIds == 1..MaxListings
Times == 1..MaxTime
Prices == {0, MidPrice}
\* u16 values InitializeMarketplace is called with: none, 25%, and one
\* above 100% (the handler checks no bound).
FeeBps == {0, 2500, 12500}
DataTypes == {"HealthData"}
Descriptions == {"d"}

None == << >>
Some(x) == << x >>

VARIABLES
    marketplace,      \* the Marketplace account
    listings,         \* listing_id -> the DataListing account at its PDA
    balance,          \* token account -> amount
    overflow_checks,  \* the build: does integer overflow panic (TRUE) or wrap
    last,             \* the last instruction: [op, caller, id, bta, new_price, err]
    issued,           \* what the last instruction's handler did, in order
    n_created,        \* history: CreateDataListing calls that succeeded
    paid,             \* history: sum of the prices of successful purchases
    sales,            \* history: listing_id -> successful purchases of it
    inflight,         \* SpecConc: purchase transactions submitted, not yet run
    calc              \* SpecFee: one fee-split computation

vars == << marketplace, listings, balance, overflow_checks, last, issued,
           n_created, paid, sales, inflight, calc >>

\* The zeroed accounts.
NoMarketplace ==
    [initialized |-> FALSE, authority |-> "", fee_basis_points |-> 0,
     total_listings |-> 0, total_volume |-> 0]

NoListing ==
    [initialized |-> FALSE, id |-> 0, owner |-> "", price |-> 0,
     data_type |-> "", description |-> "", is_active |-> FALSE,
     created_at |-> 0, sold_at |-> None, cancelled_at |-> None,
     buyer |-> None]

\* What a handler hands back: the error and the accounts where it stopped,
\* and the log of what it did on the way.
Result(err, m, l, b) ==
    [err |-> err, marketplace |-> m, listings |-> l, balance |-> b,
     log |-> << >>]

\* The events of a handler's log: a token::transfer it issued, with what
\* the token program answered, and its writes to the listing and to the
\* marketplace.
TransferIssued(from, to, amount, err) ==
    [event |-> "transfer", from |-> from, to |-> to, amount |-> amount,
     err |-> err]

ListingWritten ==
    [event |-> "listing", from |-> "", to |-> "", amount |-> 0, err |-> "Ok"]

MarketplaceWritten ==
    [event |-> "marketplace", from |-> "", to |-> "", amount |-> 0,
     err |-> "Ok"]

Logged(res, log) == [res EXCEPT !.log = log]

\* The handler's state before it has written anything.
Unchanged(err) == Result(err, marketplace, listings, balance)

\* ------------------------------------------------- the token program
\* token::transfer (SPL Token's Transfer), called through CPI: the amount
\* must be covered, the signing authority must own the source account, a
\* transfer to the source itself or of 0 changes nothing, and the credit is
\* a checked addition.  A token account is named by the wallet that owns it;
\* no wallet approves a delegate.
TokenTransfer(bal, from, to, authority, amount) ==
    IF bal[from] < amount
    THEN [err |-> "InsufficientFunds", balance |-> bal]
    ELSE IF from # authority
    THEN [err |-> "OwnerMismatch", balance |-> bal]
    ELSE IF from = to \/ amount = 0
    THEN [err |-> "Ok", balance |-> bal]
    ELSE IF bal[to] + amount > U64Max
    THEN [err |-> "Overflow", balance |-> bal]
    ELSE [err |-> "Ok",
          balance |-> [bal EXCEPT ![from] = @ - amount, ![to] = @ + amount]]

\* ------------------------------------------------------ the handlers
\* marketplace.authority, fee_basis_points, total_listings, total_volume.
initialize_marketplace(authority, marketplace_fee_basis_points) ==
    Result("Ok",
           [initialized |-> TRUE, authority |-> authority,
            fee_basis_points |-> marketplace_fee_basis_points,
            total_listings |-> 0, total_volume |-> 0],
           listings, balance)

\* `counter += n` on a u64: a panic in a build with overflow checks, a
\* wrap-around in one without.  -1 stands for the panic.
AddU64(counter, n) ==
    IF counter + n <= U64Max THEN counter + n
    ELSE IF overflow_checks THEN -1
    ELSE (counter + n) % (U64Max + 1)

create_data_listing(owner, listing_id, price, data_type, description, now) ==
    LET listing == [initialized |-> TRUE, id |-> listing_id, owner |-> owner,
                    price |-> price, data_type |-> data_type,
                    description |-> description, is_active |-> TRUE,
                    created_at |-> now, sold_at |-> None,
                    cancelled_at |-> None, buyer |-> None]
        written == [listings EXCEPT ![listing_id] = listing]
        total == AddU64(marketplace.total_listings, 1)
    IN  IF total < 0
        THEN Result("Panic", marketplace, written, balance)
        ELSE Result("Ok", [marketplace EXCEPT !.total_listings = total],
                    written, balance)

\* Mutant of fee_amount: the division rounds up.
fee_amount_rounded_up(purchase_amount, fee_basis_points) ==
    ((purchase_amount * fee_basis_points + BasisPoints - 1) \div BasisPoints)
        % (U64Max + 1)

\* (purchase_amount as u128).checked_mul(fee_basis_points as u128).unwrap()
\*     .checked_div(10000).unwrap() as u64
\* The product of a u64 and a u16 fits a u128 and the divisor is not 0, so
\* neither unwrap fails; the cast keeps the low 64 bits.
fee_amount(purchase_amount, fee_basis_points) ==
    ((purchase_amount * fee_basis_points) \div BasisPoints) % (U64Max + 1)

\* purchase_amount.checked_sub(fee_amount).unwrap(): -1 stands for the
\* panic of unwrapping None.
owner_amount(purchase_amount, fee) ==
    IF fee > purchase_amount THEN -1 ELSE purchase_amount - fee

\* Mutant of purchase_data: the error of the fee transfer is dropped and
\* the handler returns Ok there, before it updates the listing.
purchase_data_fee_error_dropped(buyer, listing_id, buyer_token_account, owner_token_account, now) ==
    LET listing == listings[listing_id]
        purchase_amount == listing.price
        fee == fee_amount(purchase_amount, marketplace.fee_basis_points)
        to_owner == owner_amount(purchase_amount, fee)
        t1 == TokenTransfer(balance, buyer_token_account, owner_token_account,
                            buyer, to_owner)
        t2 == IF fee > 0
              THEN TokenTransfer(t1.balance, buyer_token_account,
                                 MarketplacePda, buyer, fee)
              ELSE [err |-> "Ok", balance |-> t1.balance]
        sold == [listings EXCEPT ![listing_id] =
                    [listing EXCEPT !.is_active = FALSE,
                                    !.buyer = Some(buyer),
                                    !.sold_at = Some(now)]]
        total == AddU64(marketplace.total_volume, purchase_amount)
    IN  IF ~listing.is_active THEN Unchanged("ListingNotActive")
        ELSE IF listing.id # listing_id THEN Unchanged("InvalidListingId")
        ELSE IF to_owner < 0 THEN Unchanged("Panic")
        ELSE IF t1.err # "Ok"
        THEN Result(t1.err, marketplace, listings, t1.balance)
        ELSE IF t2.err # "Ok"
        THEN Result("Ok", marketplace, listings, t2.balance)
        ELSE IF total < 0
        THEN Result("Panic", marketplace, sold, t2.balance)
        ELSE Result("Ok", [marketplace EXCEPT !.total_volume = total],
                    sold, t2.balance)

\* Mutant of purchase_data: no require!(listing.is_active, ...).
purchase_data_not_checking_active(buyer, listing_id, buyer_token_account, owner_token_account, now) ==
    LET listing == listings[listing_id]
        purchase_amount == listing.price
        fee == fee_amount(purchase_amount, marketplace.fee_basis_points)
        to_owner == owner_amount(purchase_amount, fee)
        t1 == TokenTransfer(balance, buyer_token_account, owner_token_account,
                            buyer, to_owner)
        t2 == IF fee > 0
              THEN TokenTransfer(t1.balance, buyer_token_account,
                                 MarketplacePda, buyer, fee)
              ELSE [err |-> "Ok", balance |-> t1.balance]
        sold == [listings EXCEPT ![listing_id] =
                    [listing EXCEPT !.is_active = FALSE,
                                    !.buyer = Some(buyer),
                                    !.sold_at = Some(now)]]
        total == AddU64(marketplace.total_volume, purchase_amount)
    IN  IF listing.id # listing_id THEN Unchanged("InvalidListingId")
        ELSE IF to_owner < 0 THEN Unchanged("Panic")
        ELSE IF t1.err # "Ok"
        THEN Result(t1.err, marketplace, listings, t1.balance)
        ELSE IF t2.err # "Ok"
        THEN Result(t2.err, marketplace, listings, t2.balance)
        ELSE IF total < 0
        THEN Result("Panic", marketplace, sold, t2.balance)
        ELSE Result("Ok", [marketplace EXCEPT !.total_volume = total],
                    sold, t2.balance)

\* Mutant of purchase_data: the fee transfer is issued whatever the fee,
\* a fee of 0 included.
purchase_data_fee_transfer_unguarded(buyer, listing_id, buyer_token_account, owner_token_account, now) ==
    LET listing == listings[listing_id]
        purchase_amount == listing.price
        fee == fee_amount(purchase_amount, marketplace.fee_basis_points)
        to_owner == owner_amount(purchase_amount, fee)
        t1 == TokenTransfer(balance, buyer_token_account, owner_token_account,
                            buyer, to_owner)
        t2 == IF TRUE
              THEN TokenTransfer(t1.balance, buyer_token_account,
                                 MarketplacePda, buyer, fee)
              ELSE [err |-> "Ok", balance |-> t1.balance]
        sold == [listings EXCEPT ![listing_id] =
                    [listing EXCEPT !.is_active = FALSE,
                                    !.buyer = Some(buyer),
                                    !.sold_at = Some(now)]]
        total == AddU64(marketplace.total_volume, purchase_amount)
        log1 == << TransferIssued(buyer_token_account, owner_token_account,
                                  to_owner, t1.err) >>
        log2 == IF TRUE
                THEN Append(log1, TransferIssued(buyer_token_account,
                                                 MarketplacePda, fee, t2.err))
                ELSE log1
    IN  IF ~listing.is_active THEN Unchanged("ListingNotActive")
        ELSE IF listing.id # listing_id THEN Unchanged("InvalidListingId")
        ELSE IF to_owner < 0 THEN Unchanged("Panic")
        ELSE IF t1.err # "Ok"
        THEN Logged(Result(t1.err, marketplace, listings, t1.balance), log1)
        ELSE IF t2.err # "Ok"
        THEN Logged(Result(t2.err, marketplace, listings, t2.balance), log2)
        ELSE IF total < 0
        THEN Logged(Result("Panic", marketplace, sold, t2.balance),
                    Append(log2, ListingWritten))
        ELSE Logged(Result("Ok", [marketplace EXCEPT !.total_volume = total],
                           sold, t2.balance),
                    log2 \o << ListingWritten, MarketplaceWritten >>)

purchase_data(buyer, listing_id, buyer_token_account, owner_token_account, now) ==
    LET listing == listings[listing_id]
        purchase_amount == listing.price
        fee == fee_amount(purchase_amount, marketplace.fee_basis_points)
        to_owner == owner_amount(purchase_amount, fee)
        t1 == TokenTransfer(balance, buyer_token_account, owner_token_account,
                            buyer, to_owner)
        t2 == IF fee > 0
              THEN TokenTransfer(t1.balance, buyer_token_account,
                                 MarketplacePda, buyer, fee)
              ELSE [err |-> "Ok", balance |-> t1.balance]
        sold == [listings EXCEPT ![listing_id] =
                    [listing EXCEPT !.is_active = FALSE,
                                    !.buyer = Some(buyer),
                                    !.sold_at = Some(now)]]
        total == AddU64(marketplace.total_volume, purchase_amount)
        log1 == << TransferIssued(buyer_token_account, owner_token_account,
                                  to_owner, t1.err) >>
        log2 == IF fee > 0
                THEN Append(log1, TransferIssued(buyer_token_account,
                                                 MarketplacePda, fee, t2.err))
                ELSE log1
    IN  IF ~listing.is_active THEN Unchanged("ListingNotActive")
        ELSE IF listing.id # listing_id THEN Unchanged("InvalidListingId")
        ELSE IF to_owner < 0 THEN Unchanged("Panic")
        ELSE IF t1.err # "Ok"
        THEN Logged(Result(t1.err, marketplace, listings, t1.balance), log1)
        ELSE IF t2.err # "Ok"
        THEN Logged(Result(t2.err, marketplace, listings, t2.balance), log2)
        ELSE IF total < 0
        THEN Logged(Result("Panic", marketplace, sold, t2.balance),
                    Append(log2, ListingWritten))
        ELSE Logged(Result("Ok", [marketplace EXCEPT !.total_volume = total],
                           sold, t2.balance),
                    log2 \o << ListingWritten, MarketplaceWritten >>)

\* Mutant of update_listing_price: the write of the price also clears the
\* description.
update_listing_price_clearing_description(owner, listing_id, new_price) ==
    LET listing == listings[listing_id]
    IN  IF ~listing.is_active THEN Unchanged("ListingNotActive")
        ELSE IF listing.owner # owner THEN Unchanged("Unauthorized")
        ELSE Result("Ok", marketplace,
                    [listings EXCEPT ![listing_id] =
                        [listing EXCEPT !.price = new_price,
                                        !.description = ""]],
                    balance)

\* Mutant of update_listing_price: no require!(listing.is_active, ...).
update_listing_price_not_checking_active(owner, listing_id, new_price) ==
    LET listing == listings[listing_id]
    IN  IF listing.owner # owner THEN Unchanged("Unauthorized")
        ELSE Result("Ok", marketplace,
                    [listings EXCEPT ![listing_id].price = new_price],
                    balance)

update_listing_price(owner, listing_id, new_price) ==
    LET listing == listings[listing_id]
    IN  IF ~listing.is_active THEN Unchanged("ListingNotActive")
        ELSE IF listing.owner # owner THEN Unchanged("Unauthorized")
        ELSE Result("Ok", marketplace,
                    [listings EXCEPT ![listing_id].price = new_price],
                    balance)

\* Mutant of cancel_listing: no require!(listing.is_active, ...).
cancel_listing_not_checking_active(owner, listing_id, now) ==
    LET listing == listings[listing_id]
    IN  IF listing.owner # owner THEN Unchanged("Unauthorized")
        ELSE Result("Ok", marketplace,
                    [listings EXCEPT ![listing_id] =
                        [listing EXCEPT !.is_active = FALSE,
                                        !.cancelled_at = Some(now)]],
                    balance)

cancel_listing(owner, listing_id, now) ==
    LET listing == listings[listing_id]
    IN  IF ~listing.is_active THEN Unchanged("ListingNotActive")
        ELSE IF listing.owner # owner THEN Unchanged("Unauthorized")
        ELSE Result("Ok", marketplace,
                    [listings EXCEPT ![listing_id] =
                        [listing EXCEPT !.is_active = FALSE,
                                        !.cancelled_at = Some(now)]],
                    balance)

\* The transfer is signed with the marketplace PDA's seeds.
withdraw_fees(authority, amount, marketplace_token_account) ==
    IF marketplace.authority # authority THEN Unchanged("Unauthorized")
    ELSE LET t == TokenTransfer(balance, marketplace_token_account, authority,
                                MarketplacePda, amount)
         IN  Logged(Result(t.err, marketplace, listings, t.balance),
                    << TransferIssued(marketplace_token_account, authority,
                                      amount, t.err) >>)

\* ---------------------------------------------- account validation
\* What Anchor checks on the accounts before the handler runs.  The PDA
\* seeds pin the marketplace and the listing (a listing is addressed by
\* its id), and the associated_token constraints pin the marketplace's and
\* the authority's token accounts, so a call names those by id or caller.

\* Mutant of InitializeMarketplaceAccounts: the account is created if it
\* is not there and taken as it is otherwise.
InitializeMarketplaceAccountsIfNeeded == "Ok"

\* `init` on the marketplace PDA: the account must not exist yet.
InitializeMarketplaceAccounts ==
    IF marketplace.initialized THEN "AccountAlreadyInUse" ELSE "Ok"

\* Mutant of CreateDataListingAccounts: the listing is created if it is
\* not there and taken as it is otherwise.
CreateDataListingAccountsIfNeeded(listing_id) ==
    IF ~marketplace.initialized THEN "AccountNotInitialized" ELSE "Ok"

\* `init` on the listing PDA of listing_id, then the marketplace.
CreateDataListingAccounts(listing_id) ==
    IF listings[listing_id].initialized THEN "AccountAlreadyInUse"
    ELSE IF ~marketplace.initialized THEN "AccountNotInitialized"
    ELSE "Ok"

\* The listing and the marketplace exist; the token accounts passed as
\* buyer_token_account and owner_token_account carry no constraint.
PurchaseDataAccounts(listing_id) ==
    IF ~listings[listing_id].initialized \/ ~marketplace.initialized
    THEN "AccountNotInitialized"
    ELSE "Ok"

\* has_one = owner: the signer is the listing's owner.
UpdateListingPriceAccounts(owner, listing_id) ==
    IF ~listings[listing_id].initialized THEN "AccountNotInitialized"
    ELSE IF listings[listing_id].owner # owner THEN "ConstraintHasOne"
    ELSE "Ok"

\* Mutant of CancelListingAccounts: no has_one = owner.
CancelListingAccountsNoHasOne(owner, listing_id) ==
    IF ~listings[listing_id].initialized THEN "AccountNotInitialized"
    ELSE "Ok"

CancelListingAccounts(owner, listing_id) ==
    IF ~listings[listing_id].initialized THEN "AccountNotInitialized"
    ELSE IF listings[listing_id].owner # owner THEN "ConstraintHasOne"
    ELSE "Ok"

\* has_one = authority: the signer is the marketplace's authority.
WithdrawFeesAccounts(authority) ==
    IF ~marketplace.initialized THEN "AccountNotInitialized"
    ELSE IF marketplace.authority # authority THEN "ConstraintHasOne"
    ELSE "Ok"

\* ------------------------------------------------------ instructions
\* One instruction: account validation, then the handler.
Instruction(checked, res) ==
    IF checked # "Ok" THEN Unchanged(checked) ELSE res

InitializeMarketplaceIx(authority, fee) ==
    Instruction(InitializeMarketplaceAccounts,
                initialize_marketplace(authority, fee))

CreateDataListingIx(owner, listing_id, price, data_type, description, now) ==
    Instruction(CreateDataListingAccounts(listing_id),
                create_data_listing(owner, listing_id, price, data_type,
                                    description, now))

PurchaseDataIx(buyer, listing_id, buyer_token_account, owner_token_account, now) ==
    Instruction(PurchaseDataAccounts(listing_id),
                purchase_data(buyer, listing_id, buyer_token_account,
                              owner_token_account, now))

UpdateListingPriceIx(owner, listing_id, new_price) ==
    Instruction(UpdateListingPriceAccounts(owner, listing_id),
                update_listing_price(owner, listing_id, new_price))

CancelListingIx(owner, listing_id, now) ==
    Instruction(CancelListingAccounts(owner, listing_id),
                cancel_listing(owner, listing_id, now))

\* Mutant of WithdrawFeesIx: the signer is never compared with the
\* marketplace's authority.
WithdrawFeesIxAnySigner(authority, amount, marketplace_token_account) ==
    IF ~marketplace.initialized THEN Unchanged("AccountNotInitialized")
    ELSE LET t == TokenTransfer(balance, marketplace_token_account, authority,
                                MarketplacePda, amount)
         IN  Result(t.err, marketplace, listings, t.balance)

WithdrawFeesIx(authority, amount, marketplace_token_account) ==
    Instruction(WithdrawFeesAccounts(authority),
                withdraw_fees(authority, amount, marketplace_token_account))

\* The transaction around an instruction: the accounts change only when it
\* ends Ok.  `last` records the call (bta: the buyer_token_account of a
\* purchase; new_price: that of an UpdateListingPrice), `issued` takes the
\* handler's log, and the history variables count what succeeded.
Execute(op, caller, id, bta, new_price, res) ==
    LET ok == res.err = "Ok"
    IN  /\ last' = [op |-> op, caller |-> caller, id |-> id, bta |-> bta,
                    new_price |-> new_price, err |-> res.err]
        /\ issued' = res.log
        /\ marketplace' = IF ok THEN res.marketplace ELSE marketplace
        /\ listings' = IF ok THEN res.listings ELSE listings
        /\ balance' = IF ok THEN res.balance ELSE balance
        /\ n_created' = IF ok /\ op = "CreateDataListing"
                        THEN n_created + 1 ELSE n_created
        /\ paid' = IF ok /\ op = "PurchaseData"
                   THEN paid + listings[id].price ELSE paid
        /\ sales' = IF ok /\ op = "PurchaseData"
                    THEN [sales EXCEPT ![id] = @ + 1] ELSE sales
        /\ UNCHANGED overflow_checks

InitializeMarketplace ==
    \E authority \in Users, fee \in FeeBps :
        /\ Execute("InitializeMarketplace", authority, 0, "", 0,
                   InitializeMarketplaceIx(authority, fee))
        /\ UNCHANGED << inflight, calc >>

CreateDataListing ==
    \E owner \in Users, id \in ListingIds, price \in Prices,
       dt \in DataTypes, d \in Descriptions, now \in Times :
        /\ Execute("CreateDataListing", owner, id, "", 0,
                   CreateDataListingIx(owner, id, price, dt, d, now))
        /\ UNCHANGED << inflight, calc >>

\* The token accounts a buyer passes as the source: its own, or one it does
\* not own (the marketplace's).
BuyerSources(buyer) == {buyer, MarketplacePda}

PurchaseData ==
    \E buyer \in Users, id \in ListingIds, ota \in TokenAccounts,
       now \in Times :
        \E bta \in BuyerSources(buyer) :
            /\ Execute("PurchaseData", buyer, id, bta, 0,
                       PurchaseDataIx(buyer, id, bta, ota, now))
            /\ UNCHANGED << inflight, calc >>

UpdateListingPrice ==
    \E owner \in Users, id \in ListingIds, new_price \in Prices :
        /\ Execute("UpdateListingPrice", owner, id, "", new_price,
                   UpdateListingPriceIx(owner, id, new_price))
        /\ UNCHANGED << inflight, calc >>

CancelListing ==
    \E owner \in Users, id \in ListingIds, now \in Times :
        /\ Execute("CancelListing", owner, id, "", 0,
                   CancelListingIx(owner, id, now))
        /\ UNCHANGED << inflight, calc >>

\* The amounts asked for: nothing, what the marketplace holds, the most.
WithdrawFees ==
    \E authority \in Users, mta \in TokenAccounts,
       amount \in {0, balance[MarketplacePda], U64Max} :
        /\ Execute("WithdrawFees", authority, 0, "", 0,
                   WithdrawFeesIx(authority, amount, mta))
        /\ UNCHANGED << inflight, calc >>

\* ------------------------------------------------------ specification
IdleCalc == [price |-> 0, bps |-> 0, fee |-> 0, owner |-> 0, status |-> "idle"]

\* The token supply, which a u64 bounds, is in the wallets.
InitialBalance ==
    [a \in TokenAccounts |->
        IF a = "alice" THEN MidPrice
        ELSE IF a = "bob" THEN U64Max - MidPrice ELSE 0]

\* Before any instruction: no marketplace, no listing.
InitAccounts ==
    /\ marketplace = NoMarketplace
    /\ listings = [id \in ListingIds |-> NoListing]
    /\ balance = InitialBalance
    /\ overflow_checks \in BOOLEAN
    /\ last = [op |-> "none", caller |-> "", id |-> 0, bta |-> "",
               new_price |-> 0, err |-> "Ok"]
    /\ issued = << >>
    /\ n_created = 0
    /\ paid = 0
    /\ sales = [id \in ListingIds |-> 0]
    /\ inflight = {}

Init == InitAccounts /\ calc = IdleCalc

Next ==
    \/ InitializeMarketplace
    \/ CreateDataListing
    \/ PurchaseData
    \/ UpdateListingPrice
    \/ CancelListing
    \/ WithdrawFees

Spec == Init /\ [][Next]_vars

\* ------------------------------------------------ fee split alone
\* SpecFee applies the fee-split computation of purchase_data to each price
\* of the u64 range and each fee rate below.
FeeCalcBps == {0, 1, 250, 2500, 9999, 10000, 12500}

InitFee ==
    /\ InitAccounts
    /\ calc \in [price : 0..U64Max, bps : FeeCalcBps, fee : {0}, owner : {0},
                 status : {"input"}]

ComputeFeeSplit ==
    /\ calc.status = "input"
    /\ LET fee == fee_amount(calc.price, calc.bps)
           to_owner == owner_amount(calc.price, fee)
       IN  calc' = IF to_owner < 0
                   THEN [calc EXCEPT !.fee = fee, !.status = "panic"]
                   ELSE [calc EXCEPT !.fee = fee, !.owner = to_owner,
                                     !.status = "done"]
    /\ UNCHANGED << marketplace, listings, balance, overflow_checks, last,
                    issued, n_created, paid, sales, inflight >>

NextFee == ComputeFeeSplit

SpecFee == InitFee /\ [][NextFee]_vars

\* ------------------------------------------- concurrent purchases
\* SpecConc: purchase transactions are submitted and wait in flight; the
\* runtime runs them one at a time in any order, since each write-locks
\* the listing and the marketplace (`mut`).  It starts from a marketplace
\* with every listing created and active.
ConcPrices == {0, LowPrice, MidPrice}

InitConc ==
    \E fee \in FeeBps, owners \in [ListingIds -> Users],
       prices \in [ListingIds -> ConcPrices] :
        /\ marketplace = [initialized |-> TRUE, authority |-> "alice",
                          fee_basis_points |-> fee,
                          total_listings |-> MaxListings, total_volume |-> 0]
        /\ listings = [id \in ListingIds |->
                         [initialized |-> TRUE, id |-> id,
                          owner |-> owners[id], price |-> prices[id],
                          data_type |-> "HealthData", description |-> "d",
                          is_active |-> TRUE, created_at |-> 1,
                          sold_at |-> None, cancelled_at |-> None,
                          buyer |-> None]]
        /\ balance = InitialBalance
        /\ overflow_checks \in BOOLEAN
        /\ last = [op |-> "CreateDataListing", caller |-> owners[MaxListings],
                   id |-> MaxListings, bta |-> "", new_price |-> 0,
                   err |-> "Ok"]
        /\ issued = << >>
        /\ n_created = MaxListings
        /\ paid = 0
        /\ sales = [id \in ListingIds |-> 0]
        /\ inflight = {}
        /\ calc = IdleCalc

\* A buyer signs a purchase that pays from its own token account into the
\* token account of the listing's owner.
SubmitPurchase ==
    \E buyer \in Users, id \in ListingIds :
        /\ Cardinality(inflight) < MaxInflight
        /\ [buyer |-> buyer, id |-> id] \notin inflight
        /\ inflight' = inflight \cup {[buyer |-> buyer, id |-> id]}
        /\ UNCHANGED << marketplace, listings, balance, overflow_checks, last,
                        issued, n_created, paid, sales, calc >>

\* The runtime runs one of the transactions in flight.
ExecutePurchase ==
    \E tx \in inflight, now \in Times :
        /\ Execute("PurchaseData", tx.buyer, tx.id, tx.buyer, 0,
                   PurchaseDataIx(tx.buyer, tx.id, tx.buyer,
                                  listings[tx.id].owner, now))
        /\ inflight' = inflight \ {tx}
        /\ UNCHANGED calc

NextConc ==
    \/ SubmitPurchase
    \/ ExecutePurchase
    \/ CancelListing

SpecConc == InitConc /\ [][NextConc]_vars

\* =====================================================================
\* Properties
\* =====================================================================
\* The error kinds the properties speak of, as sets of the errors above.
\* A caller who is not the stored owner or authority is turned away by the
\* has_one constraint (ConstraintHasOne) before the handler's own check
\* (ErrorCode::Unauthorized) is reached.
UnauthorizedErrors == {"Unauthorized", "ConstraintHasOne"}
\* What token::transfer fails with.
TransferErrors == {"InsufficientFunds", "OwnerMismatch", "Overflow"}

Accounts == << marketplace, listings, balance >>

\* A listing that exists and is no longer active.
Terminal(id) == listings[id].initialized /\ ~listings[id].is_active

\* The step is the instruction `op` on listing `id`.
StepOn(op, id) == last'.op = op /\ last'.id = id

\* ---------------------------------------------------------------- C1
\* C1 as stated: a listing that is no longer active never becomes active
\* again, is exactly one of sold or cancelled, and every later PurchaseData
\* or CancelListing on it fails with ListingNotActive.
C1_Original ==
    /\ [](\A id \in ListingIds : Terminal(id) =>
            (listings[id].sold_at = None) # (listings[id].cancelled_at = None))
    /\ [][\A id \in ListingIds : Terminal(id) =>
            /\ ~listings'[id].is_active
            /\ (StepOn("PurchaseData", id) \/ StepOn("CancelListing", id))
                   => last'.err = "ListingNotActive"]_vars

\* C1 amended: a listing that is no longer active never becomes active
\* again and is exactly one of sold or cancelled; every later PurchaseData
\* on it, and every later CancelListing on it by its owner, fails with
\* ListingNotActive, and a later CancelListing by anyone else fails with
\* Unauthorized.
C1_TerminalOnce ==
    /\ [](\A id \in ListingIds : Terminal(id) =>
            (listings[id].sold_at = None) # (listings[id].cancelled_at = None))
    /\ [][\A id \in ListingIds : Terminal(id) =>
            /\ ~listings'[id].is_active
            /\ StepOn("PurchaseData", id) => last'.err = "ListingNotActive"
            /\ StepOn("CancelListing", id) =>
                   IF last'.caller = listings[id].owner
                   THEN last'.err = "ListingNotActive"
                   ELSE last'.err \in UnauthorizedErrors]_vars

\* The owner's CancelListing of a listing that was sold has failed with
\* ListingNotActive.
C1_Witness ==
    /\ last.op = "CancelListing"
    /\ last.err = "ListingNotActive"
    /\ last.id \in ListingIds
    /\ listings[last.id].sold_at # None
    /\ listings[last.id].owner = last.caller

\* ---------------------------------------------------------------- C2
\* C2: for every price of the u64 range and every fee rate of 0..10000 the
\* split does not fail, fee_amount is the floor of price * rate / 10000,
\* and fee_amount + owner_amount is the price.
C2_FeeSplit ==
    (calc.status \notin {"idle", "input"} /\ calc.bps <= BasisPoints) =>
        /\ calc.status = "done"
        /\ calc.fee * BasisPoints <= calc.price * calc.bps
        /\ calc.price * calc.bps < (calc.fee + 1) * BasisPoints
        /\ calc.fee + calc.owner = calc.price

\* A split that rounds: the fee is positive, the product is no multiple of
\* 10000, and the owner gets the rest.
C2_Witness ==
    /\ calc.status = "done"
    /\ calc.bps = 250
    /\ calc.fee > 0
    /\ (calc.price * calc.bps) % BasisPoints # 0
    /\ calc.owner = calc.price - calc.fee

\* ---------------------------------------------------------------- C3
\* C3: a PurchaseData whose owner transfer or fee transfer fails leaves the
\* listing active with buyer and sold_at unset and leaves the marketplace
\* and every balance as they were; a purchase moves money only in the step
\* that sells the listing, and while nothing has been sold no purchase has
\* moved any money.
C3_PurchaseAllOrNothing ==
    /\ []((\A id \in ListingIds : sales[id] = 0) => balance = InitialBalance)
    /\ [][last'.op = "PurchaseData" =>
            /\ last'.err \in TransferErrors =>
                  /\ UNCHANGED Accounts
                  /\ listings'[last'.id].is_active
                  /\ listings'[last'.id].buyer = None
                  /\ listings'[last'.id].sold_at = None
            /\ balance' # balance =>
                  /\ listings[last'.id].is_active
                  /\ ~listings'[last'.id].is_active]_vars

\* A purchase has failed in the fee transfer, after the owner transfer went
\* through: the buyer's own account covers owner_amount but not the price.
C3_Witness ==
    /\ last.op = "PurchaseData"
    /\ last.err = "InsufficientFunds"
    /\ last.bta = last.caller
    /\ listings[last.id].is_active
    /\ LET price == listings[last.id].price
           fee == fee_amount(price, marketplace.fee_basis_points)
       IN  /\ fee > 0
           /\ fee <= price
           /\ balance[last.caller] >= price - fee
           /\ balance[last.caller] < price

\* ---------------------------------------------------------------- C4
\* The step runs the transaction tx that was in flight.
PurchaseRan(tx) == tx \in inflight /\ inflight' = inflight \ {tx}

\* C4: of the purchases in flight for one listing, run in any order, at
\* most one succeeds and no listing is sold twice; a purchase that runs
\* once the listing is no longer active fails with ListingNotActive and
\* changes nothing; a purchase that runs while the listing is active, whose
\* buyer holds the price and whose arithmetic does not fail, succeeds, so
\* the first such purchase to run is the one that wins; and balances and
\* total_volume change only in the step that is a listing's one sale.
C4_OneSalePerListing ==
    /\ [](\A id \in ListingIds :
            /\ sales[id] <= 1
            /\ (sales[id] = 1) <=> (listings[id].buyer # None))
    /\ [][\A tx \in inflight : PurchaseRan(tx) =>
            LET price == listings[tx.id].price
                fee == fee_amount(price, marketplace.fee_basis_points)
            IN  /\ ~listings[tx.id].is_active =>
                      /\ last'.err = "ListingNotActive"
                      /\ UNCHANGED << marketplace, listings, balance, sales,
                                      paid >>
                /\ last'.err = "Ok" =>
                      /\ listings[tx.id].is_active
                      /\ sales[tx.id] = 0
                      /\ listings'[tx.id].buyer = Some(tx.buyer)
                /\ ( /\ listings[tx.id].is_active
                     /\ fee <= price
                     /\ balance[tx.buyer] >= price
                     /\ ~(overflow_checks
                          /\ marketplace.total_volume + price > U64Max) )
                      => last'.err = "Ok"]_vars
    /\ [][(balance' # balance
           \/ marketplace'.total_volume # marketplace.total_volume) =>
              \E id \in ListingIds : sales[id] = 0 /\ sales'[id] = 1]_vars

\* Both wallets had a purchase of the same priced listing in flight; one
\* bought it and the other, who holds the price, got ListingNotActive.
C4_Witness ==
    /\ inflight = {}
    /\ last.op = "PurchaseData"
    /\ last.err = "ListingNotActive"
    /\ listings[last.id].price > 0
    /\ listings[last.id].buyer # None
    /\ listings[last.id].buyer # Some(last.caller)
    /\ balance[last.caller] >= listings[last.id].price

\* ---------------------------------------------------------------- C5
\* C5: a successful PurchaseData takes the price from the buyer's token
\* account, adds owner_amount to the token account of the listing's owner
\* and adds fee_amount to the marketplace's token account, and moves
\* nothing else.
C5_PurchasePaysOwner ==
    [][(last'.op = "PurchaseData" /\ last'.err = "Ok") =>
          LET price == listings[last'.id].price
              fee == fee_amount(price, marketplace.fee_basis_points)
          IN  \A a \in TokenAccounts :
                  balance'[a] - balance[a] =
                      (IF a = listings[last'.id].owner THEN price - fee ELSE 0)
                      + (IF a = MarketplacePda THEN fee ELSE 0)
                      - (IF a = last'.caller THEN price ELSE 0)]_vars

\* ---------------------------------------------------------------- C6
\* The sum of the price of the listings 1..n that were sold.
RECURSIVE SoldVolume(_)
SoldVolume(n) ==
    IF n = 0 THEN 0
    ELSE SoldVolume(n - 1)
         + (IF listings[n].buyer # None THEN listings[n].price ELSE 0)

\* C6: total_listings is the number of CreateDataListing calls that
\* succeeded, and total_volume is the sum of the prices paid in the
\* PurchaseData calls that succeeded, which is the sum of the price of the
\* sold listings.
C6_CountersMatchHistory ==
    /\ marketplace.total_listings = n_created
    /\ marketplace.total_volume = paid
    /\ paid = SoldVolume(MaxListings)

\* In a build with overflow checks the counters do match the history: the
\* purchase that would overflow total_volume panics instead.
C6_CountersMatchWhenChecked ==
    overflow_checks => C6_CountersMatchHistory

\* ---------------------------------------------------------------- C7
\* C7: UpdateListingPrice and CancelListing by a caller who is not the
\* listing's owner fail with Unauthorized whether the listing is active,
\* sold or cancelled, and leave the listing as it was.
C7_NonOwnerRejected ==
    [][\A id \in ListingIds :
          ( /\ StepOn("UpdateListingPrice", id) \/ StepOn("CancelListing", id)
            /\ listings[id].initialized
            /\ last'.caller # listings[id].owner )
          => (last'.err \in UnauthorizedErrors /\ listings' = listings)]_vars

\* Someone else's UpdateListingPrice on a listing that is no longer active
\* has been turned away as unauthorized.
C7_Witness ==
    /\ last.op = "UpdateListingPrice"
    /\ last.err \in UnauthorizedErrors
    /\ Terminal(last.id)
    /\ last.caller # listings[last.id].owner

\* ---------------------------------------------------------------- C8
\* C8: WithdrawFees by anyone but the marketplace's authority fails with
\* Unauthorized and moves nothing.
C8_WithdrawNeedsAuthority ==
    [][( /\ last'.op = "WithdrawFees"
         /\ marketplace.initialized
         /\ last'.caller # marketplace.authority )
       => (last'.err \in UnauthorizedErrors /\ balance' = balance)]_vars

\* A WithdrawFees by someone else has been turned away while the
\* marketplace held fees.
C8_Witness ==
    /\ last.op = "WithdrawFees"
    /\ last.err \in UnauthorizedErrors
    /\ last.caller # marketplace.authority
    /\ balance[MarketplacePda] > 0

\* ---------------------------------------------------------------- C9
\* C9: the marketplace's token balance goes down only in a successful
\* WithdrawFees by the authority, and a PurchaseData raises it by
\* fee_amount when it succeeds and leaves it alone when it fails.
C9_CustodyOnlyWithdrawLowers ==
    [][/\ balance'[MarketplacePda] < balance[MarketplacePda] =>
              /\ last'.op = "WithdrawFees"
              /\ last'.err = "Ok"
              /\ last'.caller = marketplace.authority
       /\ last'.op = "PurchaseData" =>
              balance'[MarketplacePda] - balance[MarketplacePda] =
                  IF last'.err = "Ok"
                  THEN fee_amount(listings[last'.id].price,
                                  marketplace.fee_basis_points)
                  ELSE 0]_vars

\* The part of C9 about lowering: only a successful WithdrawFees by the
\* authority lowers the marketplace's token balance, and no PurchaseData
\* does.
C9_OnlyWithdrawLowers ==
    [][balance'[MarketplacePda] < balance[MarketplacePda] =>
          /\ last'.op = "WithdrawFees"
          /\ last'.err = "Ok"
          /\ last'.caller = marketplace.authority]_vars

\* --------------------------------------------------------------- C10
\* C10: an instruction that fails leaves the marketplace, every listing and
\* every balance as they were; a PurchaseData on a listing that is no
\* longer active fails and changes nothing.
C10_FailureChangesNothing ==
    [][/\ last'.err # "Ok" => UNCHANGED Accounts
       /\ (last'.op = "PurchaseData" /\ Terminal(last'.id)) =>
              (last'.err # "Ok" /\ UNCHANGED Accounts)]_vars

\* A second PurchaseData on a sold listing has failed.
C10_Witness ==
    /\ last.op = "PurchaseData"
    /\ last.err = "ListingNotActive"
    /\ listings[last.id].buyer # None
    /\ balance[last.caller] >= listings[last.id].price

\* --------------------------------------------------------------- C11
\* C11: for every price of the u64 range and every fee rate that
\* InitializeMarketplace stores, the rates above 10000 included, the split
\* does not fail, and the fee it yields is the whole quotient
\* price * rate / 10000, none of its bits cut off by the narrowing cast.
C11_FeeSplitNeverFails ==
    calc.status \notin {"idle", "input"} =>
        /\ calc.status = "done"
        /\ calc.fee = (calc.price * calc.bps) \div BasisPoints

\* --------------------------------------------------------------- C12
\* C12: a CreateDataListing that would take total_listings, or a
\* PurchaseData that would take total_volume, beyond the u64 range fails
\* and changes no account; after any step a counter is what it was or the
\* exact sum, never a wrapped value.
C12_CounterOverflowFails ==
    [][/\ ( /\ last'.op = "CreateDataListing"
            /\ marketplace.total_listings + 1 > U64Max )
          => (last'.err # "Ok" /\ UNCHANGED Accounts)
       /\ ( /\ last'.op = "PurchaseData"
            /\ marketplace.total_volume + listings[last'.id].price > U64Max )
          => (last'.err # "Ok" /\ UNCHANGED Accounts)
       /\ marketplace'.total_listings
              \in {0, marketplace.total_listings,
                   marketplace.total_listings + 1}
       /\ \E id \in ListingIds :
              marketplace'.total_volume
                  \in {0, marketplace.total_volume,
                       marketplace.total_volume + listings[id].price}]_vars

\* --------------------------------------------------------------- C13
\* C13: total_listings and total_volume are zero right after
\* InitializeMarketplace, and no step makes either smaller.
C13_CountersNeverDecrease ==
    [][/\ (last'.op = "InitializeMarketplace" /\ last'.err = "Ok") =>
              /\ marketplace'.total_listings = 0
              /\ marketplace'.total_volume = 0
       /\ marketplace'.total_listings >= marketplace.total_listings
       /\ marketplace'.total_volume >= marketplace.total_volume]_vars

\* In a build with overflow checks no step makes a counter smaller.
C13_NeverDecreaseWhenChecked ==
    [][overflow_checks =>
          /\ marketplace'.total_listings >= marketplace.total_listings
          /\ marketplace'.total_volume >= marketplace.total_volume]_vars

\* --------------------------------------------------------------- C14
\* C14: UpdateListingPrice by the owner of a listing that is sold or
\* cancelled fails with ListingNotActive and leaves the price as it was; the
\* price of a listing changes only in a step that starts with the listing
\* active.
C14_PriceFixedOnceInactive ==
    [][\A id \in ListingIds :
          /\ ( /\ StepOn("UpdateListingPrice", id)
               /\ Terminal(id)
               /\ last'.caller = listings[id].owner )
             => /\ last'.err = "ListingNotActive"
                /\ listings'[id].price = listings[id].price
          /\ ( /\ listings[id].initialized
               /\ listings'[id].price # listings[id].price )
             => listings[id].is_active]_vars

\* The owner's UpdateListingPrice on the listing it cancelled has failed
\* with ListingNotActive.
C14_Witness ==
    /\ last.op = "UpdateListingPrice"
    /\ last.err = "ListingNotActive"
    /\ last.id \in ListingIds
    /\ last.caller = listings[last.id].owner
    /\ listings[last.id].cancelled_at # None

\* --------------------------------------------------------------- C15
\* C15: no listing ever has both sold_at and cancelled_at set; a listing
\* with buyer set has sold_at set and cancelled_at unset; a listing just
\* created has all three unset; and sold_at is written by no step once it
\* is set, nor is cancelled_at: the value stays and no PurchaseData
\* (CancelListing) on that listing succeeds again.
C15_TerminalFieldsExclusive ==
    /\ [](\A id \in ListingIds :
            /\ ~(listings[id].sold_at # None /\ listings[id].cancelled_at # None)
            /\ listings[id].buyer # None =>
                   /\ listings[id].sold_at # None
                   /\ listings[id].cancelled_at = None)
    /\ [][\A id \in ListingIds :
            /\ (StepOn("CreateDataListing", id) /\ last'.err = "Ok") =>
                   /\ listings'[id].sold_at = None
                   /\ listings'[id].cancelled_at = None
                   /\ listings'[id].buyer = None
            /\ listings[id].sold_at # None =>
                   /\ listings'[id].sold_at = listings[id].sold_at
                   /\ listings'[id].buyer = listings[id].buyer
                   /\ ~(StepOn("PurchaseData", id) /\ last'.err = "Ok")
            /\ listings[id].cancelled_at # None =>
                   /\ listings'[id].cancelled_at = listings[id].cancelled_at
                   /\ ~(StepOn("CancelListing", id) /\ last'.err = "Ok")]_vars

\* One listing was sold and another cancelled, and the owner of the sold
\* one has since tried to cancel it.
C15_Witness ==
    /\ last.op = "CancelListing"
    /\ last.err # "Ok"
    /\ listings[last.id].sold_at # None
    /\ listings[last.id].buyer # None
    /\ last.caller = listings[last.id].owner
    /\ \E id \in ListingIds :
           listings[id].cancelled_at # None /\ listings[id].buyer = None

\* --------------------------------------------------------------- C16
\* What the creation of an account that exists fails with (`init`): the
\* store's create-if-absent failure, which is what AlreadyInitialized and
\* DuplicateListing name.
AlreadyExistsErrors == {"AccountAlreadyInUse"}

\* C16: an InitializeMarketplace on a marketplace that exists fails as
\* already initialized, whoever calls it and with whatever fee, so it
\* succeeds at most once; and no step changes the authority or the
\* fee_basis_points of a marketplace that exists.
C16_InitializeOnce ==
    [][/\ (last'.op = "InitializeMarketplace" /\ marketplace.initialized) =>
              /\ last'.err \in AlreadyExistsErrors
              /\ UNCHANGED Accounts
       /\ marketplace.initialized =>
              /\ marketplace'.initialized
              /\ marketplace'.authority = marketplace.authority
              /\ marketplace'.fee_basis_points
                     = marketplace.fee_basis_points]_vars

\* Someone other than the authority has called InitializeMarketplace on
\* the marketplace after listings were sold, and failed.
C16_Witness ==
    /\ last.op = "InitializeMarketplace"
    /\ last.err \in AlreadyExistsErrors
    /\ last.caller # marketplace.authority
    /\ marketplace.total_volume > 0

\* --------------------------------------------------------------- C17
\* C17: a CreateDataListing with the id of a listing that exists, be it
\* active, sold or cancelled, fails as a duplicate, leaves every listing as
\* it was and leaves total_listings as it was.
C17_DuplicateListingRejected ==
    [][\A id \in ListingIds :
          (StepOn("CreateDataListing", id) /\ listings[id].initialized) =>
              /\ last'.err \in AlreadyExistsErrors
              /\ listings' = listings
              /\ marketplace'.total_listings = marketplace.total_listings
              /\ n_created' = n_created]_vars

\* Someone else has called CreateDataListing with the id of a listing that
\* was sold, and failed.
C17_Witness ==
    /\ last.op = "CreateDataListing"
    /\ last.err \in AlreadyExistsErrors
    /\ listings[last.id].sold_at # None
    /\ last.caller # listings[last.id].owner

\* --------------------------------------------------------------- C18
\* C18: in a PurchaseData the first thing the handler does is the transfer
\* of owner_amount from the buyer's token account to the account passed as
\* the owner's; a second transfer is issued only after that one succeeded,
\* only when fee_amount is above 0, and is the transfer of fee_amount to the
\* marketplace's token account, so a fee of 0 issues no fee transfer; the
\* listing and the marketplace are written only after every transfer the
\* purchase owes was issued and succeeded; and a purchase that succeeds
\* did all of these.
C18_TransferOrder ==
    [][last'.op = "PurchaseData" =>
          LET price == listings[last'.id].price
              fee == fee_amount(price, marketplace.fee_basis_points)
              n == Len(issued')
              owed == IF fee > 0 THEN 2 ELSE 1
          IN  /\ n >= 1 =>
                    /\ issued'[1].event = "transfer"
                    /\ issued'[1].from = last'.bta
                    /\ issued'[1].amount = price - fee
              /\ \A i \in 2..n : issued'[i].event = "transfer" =>
                    /\ i = 2
                    /\ fee > 0
                    /\ issued'[1].err = "Ok"
                    /\ issued'[i].from = last'.bta
                    /\ issued'[i].to = MarketplacePda
                    /\ issued'[i].amount = fee
              /\ \A i \in 1..n : issued'[i].event # "transfer" =>
                    /\ i > owed
                    /\ \A j \in 1..owed :
                          /\ issued'[j].event = "transfer"
                          /\ issued'[j].err = "Ok"
              /\ last'.err = "Ok" =>
                    /\ n = owed + 2
                    /\ issued'[owed + 1] = ListingWritten
                    /\ issued'[owed + 2] = MarketplaceWritten
              /\ last'.err # "Ok" =>
                    \A i \in 1..n : issued'[i] # MarketplaceWritten]_vars

\* A purchase has succeeded that paid the listing's owner and then a fee
\* above 0, and wrote the listing and the marketplace after them.
C18_Witness ==
    /\ last.op = "PurchaseData"
    /\ last.err = "Ok"
    /\ Len(issued) = 4
    /\ issued[1].event = "transfer"
    /\ issued[1].to = listings[last.id].owner
    /\ issued[1].amount > 0
    /\ issued[2].event = "transfer"
    /\ issued[2].to = MarketplacePda
    /\ issued[2].amount > 0

\* --------------------------------------------------------------- C19
\* C19: an UpdateListingPrice that succeeds was called by the owner on an
\* active listing, sets the listing's price to new_price and changes
\* nothing else: the listing's other fields, the other listings, the
\* marketplace and every balance are as before, and the listing is still
\* active.
C19_UpdateChangesPriceOnly ==
    [][(last'.op = "UpdateListingPrice" /\ last'.err = "Ok") =>
          /\ listings[last'.id].is_active
          /\ last'.caller = listings[last'.id].owner
          /\ listings' = [listings EXCEPT
                             ![last'.id] = [listings[last'.id] EXCEPT
                                               !.price = last'.new_price]]
          /\ listings'[last'.id].is_active
          /\ marketplace' = marketplace
          /\ balance' = balance]_vars

\* An UpdateListingPrice has succeeded while every listing exists: the
\* listing is active and carries the new price.
C19_Witness ==
    /\ last.op = "UpdateListingPrice"
    /\ last.err = "Ok"
    /\ listings[last.id].price = last.new_price
    /\ listings[last.id].is_active
    /\ n_created = MaxListings

\* --------------------------------------------------------------- C20
\* The instructions that take a listing account.
ListingOps ==
    {"CreateDataListing", "PurchaseData", "UpdateListingPrice",
     "CancelListing"}

\* C20: a listing that is sold or cancelled is never changed again: after
\* every step, whatever the instruction and whoever the caller, each of its
\* fields is what it was, and every instruction on it fails, so that no
\* field is written again even with the value it has.
C20_TerminalFrozen ==
    [][\A id \in ListingIds : Terminal(id) =>
          /\ listings'[id] = listings[id]
          /\ (last'.op \in ListingOps /\ last'.id = id) => last'.err # "Ok"]_vars

\* A PurchaseData on a cancelled listing has failed: the listing still has
\* no buyer and its cancelled_at.
C20_Witness ==
    /\ last.op = "PurchaseData"
    /\ last.err = "ListingNotActive"
    /\ listings[last.id].cancelled_at # None
    /\ listings[last.id].buyer = None
    /\ listings[last.id].price > 0
    /\ balance[last.caller] >= listings[last.id].price

====
